---- MODULE Spec2Model ----
(***************************************************************************)
(* Model of the tube feeder firmware (src/tube_feeder.ino): the serial     *)
(* command loop, the command interpreter, the blocking feed loop with its  *)
(* inline STOP scan, jog stepping and position accounting.                 *)
(*                                                                         *)
(* Units.  Distances and speeds parsed from command text are integers in   *)
(* thousandths (mm/1000, mm/sec/1000).  currentPositionMm is held in       *)
(* units of one step increment stepMm = 1/stepsPerMm (doStep adds or       *)
(* subtracts exactly one unit); it is converted to hundredths of a mm      *)
(* where the firmware prints it.  Float rounding error of the AVR 32-bit   *)
(* float is not modelled: arithmetic is exact rational arithmetic.         *)
(***************************************************************************)
EXTENDS Integers, Sequences, FiniteSets, TLC

\* ------------------------------------------------------------------ bounds
\* Capacity, in bytes, of the serial receive buffer the host can fill.
MaxRx == 6
\* Steps are issued only while |currentPositionMm| (in step units) is below this.
MaxPos == 2

\* --------------------------------------------------------------- constants
DIR_FORWARD == 1
DIR_REVERSE == 0
\* stepsPerMm = 17.62, held as hundredths
stepsPerMmX100 == 1762
\* maxSpeedMmSec = 50.0, in thousandths
maxSpeedMmSec == 50000
\* targetSpeedMmSec = 10.0 at boot, in thousandths
bootSpeedMmSec == 10000
\* minimum inter-step delay, microseconds
minStepDelayUs == 100

\* ------------------------------------------------------------ text helpers
LF == "\n"
CR == "\r"
WhiteSpace == {" ", "\t", "\n", "\r"}
Digits == <<"0", "1", "2", "3", "4", "5", "6", "7", "8", "9">>
Lower == <<"a", "b", "c", "d", "e", "f", "g", "h", "i", "j", "k", "l", "m",
           "n", "o", "p", "q", "r", "s", "t", "u", "v", "w", "x", "y", "z">>
Upper == <<"A", "B", "C", "D", "E", "F", "G", "H", "I", "J", "K", "L", "M",
           "N", "O", "P", "Q", "R", "S", "T", "U", "V", "W", "X", "Y", "Z">>

IsDigit(c) == \E i \in 1..10 : Digits[i] = c
DigitVal(c) == (CHOOSE i \in 1..10 : Digits[i] = c) - 1

\* String::toUpperCase, one character
toUpperChar(c) ==
  IF \E i \in 1..26 : Lower[i] = c
  THEN Upper[CHOOSE i \in 1..26 : Lower[i] = c]
  ELSE c

\* String::toUpperCase
toUpperCase(s) == [i \in 1..Len(s) |-> toUpperChar(s[i])]

RECURSIVE SkipSpace(_)
SkipSpace(s) ==
  IF s # <<>> /\ Head(s) \in WhiteSpace THEN SkipSpace(Tail(s)) ELSE s

RECURSIVE DropTrailingSpace(_)
DropTrailingSpace(s) ==
  IF s # <<>> /\ s[Len(s)] \in WhiteSpace
  THEN DropTrailingSpace(SubSeq(s, 1, Len(s) - 1))
  ELSE s

\* String::trim
trim(s) == DropTrailingSpace(SkipSpace(s))

\* The leading run of decimal digits of s
RECURSIVE DigitRun(_)
DigitRun(s) ==
  IF s # <<>> /\ IsDigit(Head(s)) THEN <<Head(s)>> \o DigitRun(Tail(s)) ELSE <<>>

RECURSIVE DigitsValue(_, _)
DigitsValue(ds, acc) ==
  IF ds = <<>> THEN acc ELSE DigitsValue(Tail(ds), acc * 10 + DigitVal(Head(ds)))

\* Value, in thousandths, of the fraction digits fp (digits past the third are dropped)
FracValue(fp) ==
  (IF Len(fp) >= 1 THEN 100 * DigitVal(fp[1]) ELSE 0)
  + (IF Len(fp) >= 2 THEN 10 * DigitVal(fp[2]) ELSE 0)
  + (IF Len(fp) >= 3 THEN DigitVal(fp[3]) ELSE 0)

\* String::toFloat (atof): optional blanks, optional sign, digits, optional
\* fraction; 0 when no number can be parsed.  Result in thousandths.
toFloat(s) ==
  LET t == SkipSpace(s)
      neg == t # <<>> /\ Head(t) = "-"
      u == IF t # <<>> /\ Head(t) \in {"+", "-"} THEN Tail(t) ELSE t
      ip == DigitRun(u)
      rest == SubSeq(u, Len(ip) + 1, Len(u))
      fp == IF rest # <<>> /\ Head(rest) = "." THEN DigitRun(Tail(rest)) ELSE <<>>
      mag == 1000 * DigitsValue(ip, 0) + FracValue(fp)
  IN IF neg THEN 0 - mag ELSE mag

\* String::toInt (atol): optional blanks, optional sign, digits; 0 when none.
toInt(s) ==
  LET t == SkipSpace(s)
      neg == t # <<>> /\ Head(t) = "-"
      u == IF t # <<>> /\ Head(t) \in {"+", "-"} THEN Tail(t) ELSE t
      mag == DigitsValue(DigitRun(u), 0)
  IN IF neg THEN 0 - mag ELSE mag

\* String::substring(1)
substring1(s) == IF s = <<>> THEN <<>> ELSE Tail(s)

\* --------------------------------------------------------- unit conversion
\* (long)(mm * stepsPerMm) for mm > 0, mm in thousandths
stepsFor_Rounds(mm) == (mm * stepsPerMmX100 + 50000) \div 100000
stepsFor(mm) == (mm * stepsPerMmX100) \div 100000

\* floor(10^11 / d) for 0 < d < 2^27, computed without leaving 32 bits
FloorE11Div(d) ==
  LET q0 == 1000000000 \div d
      r0 == 1000000000 % d
      q1 == q0 * 10 + (r0 * 10) \div d
      r1 == (r0 * 10) % d
  IN q1 * 10 + (r1 * 10) \div d

\* (unsigned long)(1000000.0 / (speed * stepsPerMm)), clamped to the minimum
stepIntervalFor(speed) ==
  LET raw == FloorE11Div(speed * stepsPerMmX100)
  IN IF raw < minStepDelayUs THEN minStepDelayUs ELSE raw

Abs(x) == IF x < 0 THEN 0 - x ELSE x

\* Print::print(float, 2): a position in step units rendered as hundredths of
\* a mm, rounded half away from zero.
printPos(p) ==
  LET mag == (Abs(p) * 20000 + stepsPerMmX100) \div (2 * stepsPerMmX100)
  IN IF p < 0 THEN 0 - mag ELSE mag

\* Print::print(float): a value in thousandths rendered as hundredths,
\* rounded half away from zero.
print2(v) ==
  LET mag == (Abs(v) + 5) \div 10
  IN IF v < 0 THEN 0 - mag ELSE mag

\* ------------------------------------------------------------------- state
VARIABLES
  isRunning,          \* volatile bool isRunning
  stopRequested,      \* volatile bool stopRequested
  jogMode,            \* bool jogMode
  jogDirection,       \* int jogDirection
  ledState,           \* int ledState
  currentPositionMm,  \* float currentPositionMm, in step units
  targetSpeedMmSec,   \* float targetSpeedMmSec, in thousandths
  stepDelayUs,        \* unsigned long stepDelayUs
  inputBuffer,        \* String inputBuffer
  rx,                 \* bytes waiting in the serial receive buffer
  pinDir,             \* level of the PIN_DIR output
  pc,                 \* "loop": in loop(); "feed": inside feedDistance's while
  feed,               \* locals of the running feedDistance call
  out,                \* lines printed by the latest step
  ev,                 \* the latest step taken: its kind and, for a command, its text
  netPulses,          \* forward minus reverse step pulses since the last HOME or boot
  rxBusy,             \* per byte of rx: was it sent while a move was active
  lineBusy,           \* was any byte of inputBuffer sent while a move was active
  trip                \* the host's note of the round trip it is running, if any

vars == <<isRunning, stopRequested, jogMode, jogDirection, ledState,
          currentPositionMm, targetSpeedMmSec, stepDelayUs, inputBuffer, rx,
          pinDir, pc, feed, out, ev, netPulses, rxBusy, lineBusy, trip>>

motion == <<isRunning, stopRequested, jogMode, jogDirection, pinDir, pc, feed>>
config == <<targetSpeedMmSec, stepDelayUs>>
place == <<currentPositionMm, netPulses>>

Line(t, v) == [txt |-> t, val |-> v]
\* before: currentPositionMm when the step was taken
Event(k, c) == [kind |-> k, cmd |-> c, before |-> currentPositionMm]
\* startPos records currentPositionMm at the call of feedDistance
NoFeed == [mm |-> 0, direction |-> DIR_FORWARD, totalSteps |-> 0, stepsCompleted |-> 0,
           startPos |-> 0]

\* phase 0: no round trip; 1: F<dist> sent from position start; 2: R<dist> sent
NoTrip == [phase |-> 0, start |-> 0, dist |-> <<>>]

\* Command texts the host sends
STOP == <<"S", "T", "O", "P">>
HOME == <<"H", "O", "M", "E">>
POS == <<"P", "O", "S">>
FEED_A == <<"F", ".", "1", "5">>
SPEED_A == <<"S", "2", "0">>
JOG_A == <<"J", "+">>
LED_A == <<"L", "2">>
QUERY == <<"?">>
HostLines ==
  { STOP, <<"s", "t", "o", "p">>, HOME, POS, QUERY,
    FEED_A, <<"R", ".", "1">>, <<"F", ".", "0", "5">>, <<"F", "0">>, <<"R", "X">>,
    SPEED_A, <<"S", "0">>, <<"S", "6", "0">>, <<"S", "X">>,
    JOG_A, <<"J", "-">>, <<"J">>, <<"J", "X">>,
    <<"H", "O", "M", "E", "X">>, <<"P", "X">>,
    LED_A, <<"L", "5">>, <<"X">>, <<" ">> }
\* Lines also sent with a CR-LF terminator
CrLfLines == { STOP, FEED_A, JOG_A }
\* Lines the host sends while a feed is blocking the reader
FeedLines == { STOP, QUERY, FEED_A, JOG_A, SPEED_A, HOME, LED_A }

\* Whether a step of delta d keeps the tracked values within the model's range
InRange(x, d) == Abs(x + d) <= MaxPos \/ Abs(x + d) < Abs(x)
StepAllowed(direction) ==
  LET d == IF direction = DIR_FORWARD THEN 1 ELSE 0 - 1
  IN InRange(currentPositionMm, d) /\ InRange(netPulses, d)

\* setup()
Init ==
  /\ isRunning = FALSE
  /\ stopRequested = FALSE
  /\ jogMode = FALSE
  /\ jogDirection = DIR_FORWARD
  /\ ledState = 0
  /\ currentPositionMm = 0
  /\ targetSpeedMmSec = bootSpeedMmSec
  /\ stepDelayUs = stepIntervalFor(bootSpeedMmSec)
  /\ inputBuffer = <<>>
  /\ rx = <<>>
  /\ pinDir = DIR_FORWARD
  /\ pc = "loop"
  /\ feed = NoFeed
  /\ out = <<Line("TUBE_FEEDER_READY", <<>>)>>
  /\ ev = [kind |-> "boot", cmd |-> <<>>, before |-> 0]
  /\ netPulses = 0
  /\ rxBusy = <<>>
  /\ lineBusy = FALSE
  /\ trip = NoTrip

\* The bytes of one complete line arrive in the serial receive buffer
Transmit(line, term) ==
  /\ Len(rx) + Len(line) + Len(term) <= MaxRx
  /\ rx' = rx \o line \o term
  /\ rxBusy' = rxBusy \o [i \in 1..(Len(line) + Len(term)) |-> isRunning]
  /\ ev' = Event("host", <<>>)
  /\ out' = <<>>
  /\ UNCHANGED <<motion, config, place, ledState, inputBuffer, lineBusy>>

\* The host writes one complete line to the serial link.  While the firmware is
\* in loop() the host waits for the previous line to be consumed; while a feed
\* blocks the reader, lines accumulate in the receive buffer.
HostSend(line, term) ==
  /\ IF pc = "feed" THEN line \in FeedLines ELSE rx = <<>>
  /\ Transmit(line, term)
  /\ UNCHANGED trip

\* updateStepDelay()
updateStepDelay_Stale == UNCHANGED stepDelayUs
updateStepDelay == stepDelayUs' = stepIntervalFor(targetSpeedMmSec')

\* stopMotion()
stopMotion_KeepsJog ==
  /\ stopRequested' = TRUE
  /\ isRunning' = FALSE
  /\ UNCHANGED jogMode
stopMotion ==
  /\ stopRequested' = TRUE
  /\ jogMode' = FALSE
  /\ isRunning' = FALSE

\* doStep(direction): one pulse on PIN_STEP and its position update
doStep_TracksTwice(direction) ==
  /\ currentPositionMm' =
       IF direction = DIR_FORWARD THEN currentPositionMm + 2 ELSE currentPositionMm - 2
  /\ netPulses' = IF direction = DIR_FORWARD THEN netPulses + 1 ELSE netPulses - 1
doStep(direction) ==
  /\ currentPositionMm' =
       IF direction = DIR_FORWARD THEN currentPositionMm + 1 ELSE currentPositionMm - 1
  /\ netPulses' = IF direction = DIR_FORWARD THEN netPulses + 1 ELSE netPulses - 1

\* startJog(direction)
startJog_NoDirWrite(direction) ==
  /\ jogMode' = TRUE
  /\ jogDirection' = direction
  /\ isRunning' = TRUE
  /\ stopRequested' = FALSE
  /\ UNCHANGED pinDir
  /\ out' = <<Line(IF direction = DIR_FORWARD THEN "JOGGING FORWARD" ELSE "JOGGING REVERSE", <<>>)>>
startJog(direction) ==
  /\ jogMode' = TRUE
  /\ jogDirection' = direction
  /\ isRunning' = TRUE
  /\ stopRequested' = FALSE
  /\ pinDir' = direction
  /\ out' = <<Line(IF direction = DIR_FORWARD THEN "JOGGING FORWARD" ELSE "JOGGING REVERSE", <<>>)>>

\* feedDistance(mm, direction) up to the head of its while loop
feedDistanceBegin_KeepsStop(mm, direction) ==
  /\ isRunning' = TRUE
  /\ UNCHANGED stopRequested
  /\ jogMode' = FALSE
  /\ pinDir' = direction
  /\ feed' = [mm |-> mm, direction |-> direction,
              totalSteps |-> stepsFor(mm), stepsCompleted |-> 0,
              startPos |-> currentPositionMm]
  /\ out' = <<Line("FEEDING", <<print2(mm)>>)>>
  /\ pc' = "feed"
feedDistanceBegin(mm, direction) ==
  /\ isRunning' = TRUE
  /\ stopRequested' = FALSE
  /\ jogMode' = FALSE
  /\ pinDir' = direction
  /\ feed' = [mm |-> mm, direction |-> direction,
              totalSteps |-> stepsFor(mm), stepsCompleted |-> 0,
              startPos |-> currentPositionMm]
  /\ out' = <<Line("FEEDING", <<print2(mm)>>)>>
  /\ pc' = "feed"

\* setLED(state)
setLED(state) == ledState' = state

\* reportStatus()
reportStatus ==
  out' = <<Line("STATUS", <<printPos(currentPositionMm), print2(targetSpeedMmSec),
                            stepsPerMmX100, IF isRunning THEN 1 ELSE 0,
                            IF jogMode THEN 1 ELSE 0, ledState>>)>>

\* ------------------------------------------------------- command interpreter
\* loop() has read a line terminator and holds a non-empty line
CmdReady ==
  /\ pc = "loop"
  /\ rx # <<>>
  /\ Head(rx) \in {LF, CR}
  /\ inputBuffer # <<>>

\* cmd after cmd.trim(); cmd.toUpperCase()
cmdText == toUpperCase(trim(inputBuffer))

\* if (isRunning && firstChar != '?')
IsBusy_Never == FALSE
IsBusy == isRunning /\ Head(cmdText) # "?"

\* Control reaches the switch with this first character
Dispatched(ch) ==
  /\ CmdReady
  /\ cmdText # <<>>
  /\ cmdText # STOP
  /\ ~IsBusy
  /\ Head(cmdText) = ch

\* The terminator is consumed and, once processCommand returns, the buffer cleared
Returned ==
  /\ rx' = Tail(rx)
  /\ rxBusy' = Tail(rxBusy)
  /\ inputBuffer' = <<>>
  /\ lineBusy' = FALSE
  /\ ev' = Event("cmd", cmdText)
  /\ UNCHANGED trip

Reply(t) == out' = <<Line(t, <<>>)>>

\* if (cmd.length() == 0) return;
CmdEmpty ==
  /\ CmdReady
  /\ cmdText = <<>>
  /\ out' = <<>>
  /\ Returned
  /\ UNCHANGED <<motion, config, place, ledState>>

\* if (cmd == "STOP")
CmdStop ==
  /\ CmdReady
  /\ cmdText = STOP
  /\ stopMotion
  /\ Reply("OK STOPPED")
  /\ Returned
  /\ UNCHANGED <<jogDirection, pinDir, pc, feed, config, place, ledState>>

\* if (isRunning && firstChar != '?')
CmdBusy ==
  /\ CmdReady
  /\ cmdText # <<>>
  /\ cmdText # STOP
  /\ IsBusy
  /\ Reply("ERR BUSY")
  /\ Returned
  /\ UNCHANGED <<motion, config, place, ledState>>

\* case 'F' and case 'R'
CaseFeed(ch, direction) ==
  /\ Dispatched(ch)
  /\ LET mm == toFloat(substring1(cmdText))
     IN IF mm > 0
        THEN /\ feedDistanceBegin(mm, direction)
             /\ rx' = Tail(rx)
             /\ rxBusy' = Tail(rxBusy)
             /\ ev' = Event("cmd", cmdText)
             /\ UNCHANGED <<jogDirection, inputBuffer, lineBusy, trip>>
        ELSE /\ Reply("ERR INVALID_DISTANCE")
             /\ Returned
             /\ UNCHANGED motion
  /\ UNCHANGED <<config, place, ledState>>

CaseF == CaseFeed("F", DIR_FORWARD)
CaseR == CaseFeed("R", DIR_REVERSE)

\* if (speed > 0 && speed <= maxSpeedMmSec)
speedInRange_NoMax(speed) == speed > 0
speedInRange(speed) == speed > 0 /\ speed <= maxSpeedMmSec

\* case 'S'
CaseS ==
  /\ Dispatched("S")
  /\ LET speed == toFloat(substring1(cmdText))
     IN IF speedInRange(speed)
        THEN /\ targetSpeedMmSec' = speed
             /\ updateStepDelay
             /\ out' = <<Line("OK SPEED=", <<print2(speed)>>)>>
        ELSE /\ out' = <<Line("ERR SPEED_RANGE 0-", <<print2(maxSpeedMmSec)>>)>>
             /\ UNCHANGED config
  /\ Returned
  /\ UNCHANGED <<motion, place, ledState>>

\* case 'J'
CaseJ ==
  /\ Dispatched("J")
  /\ IF Len(cmdText) >= 2
     THEN IF cmdText[2] = "+"
          THEN startJog(DIR_FORWARD) /\ UNCHANGED <<pc, feed>>
          ELSE IF cmdText[2] = "-"
               THEN startJog(DIR_REVERSE) /\ UNCHANGED <<pc, feed>>
               ELSE Reply("ERR USE J+ OR J-") /\ UNCHANGED motion
     ELSE out' = <<>> /\ UNCHANGED motion
  /\ Returned
  /\ UNCHANGED <<config, place, ledState>>

\* currentPositionMm = 0.0
zeroPosition_Keeps == UNCHANGED place
zeroPosition ==
  /\ currentPositionMm' = 0
  /\ netPulses' = 0

\* case 'H'
CaseH ==
  /\ Dispatched("H")
  /\ IF cmdText = HOME
     THEN /\ zeroPosition
          /\ Reply("OK HOME=0")
     ELSE /\ out' = <<>>
          /\ UNCHANGED place
  /\ Returned
  /\ UNCHANGED <<motion, config, ledState>>

\* case 'P'
CaseP ==
  /\ Dispatched("P")
  /\ IF cmdText = POS
     THEN out' = <<Line("POS=", <<printPos(currentPositionMm)>>)>>
     ELSE out' = <<>>
  /\ Returned
  /\ UNCHANGED <<motion, config, place, ledState>>

\* case '?'
CaseQuery ==
  /\ CmdReady
  /\ cmdText # <<>>
  /\ Head(cmdText) = "?"
  /\ reportStatus
  /\ Returned
  /\ UNCHANGED <<motion, config, place, ledState>>

\* case 'L'
CaseL ==
  /\ Dispatched("L")
  /\ IF Len(cmdText) >= 2
     THEN LET state == toInt(substring1(cmdText))
          IN IF state >= 0 /\ state <= 3
             THEN setLED(state) /\ out' = <<>>
             ELSE Reply("ERR LED_RANGE 0-3") /\ UNCHANGED ledState
     ELSE out' = <<>> /\ UNCHANGED ledState
  /\ Returned
  /\ UNCHANGED <<motion, config, place>>

\* default:
CaseDefault ==
  /\ CmdReady
  /\ cmdText # <<>>
  /\ cmdText # STOP
  /\ ~IsBusy
  /\ Head(cmdText) \notin {"F", "R", "S", "J", "H", "P", "?", "L"}
  /\ Reply("ERR UNKNOWN_CMD")
  /\ Returned
  /\ UNCHANGED <<motion, config, place, ledState>>

\* processCommand(inputBuffer)
processCommand ==
  \/ CmdEmpty
  \/ CmdStop
  \/ CmdBusy
  \/ CaseF
  \/ CaseR
  \/ CaseS
  \/ CaseJ
  \/ CaseH
  \/ CaseP
  \/ CaseQuery
  \/ CaseL
  \/ CaseDefault

\* ------------------------------------------------------------------ loop()
\* One pass of the while (Serial.available()) body on a character of a line
LoopReadChar ==
  /\ pc = "loop"
  /\ rx # <<>>
  /\ Head(rx) \notin {LF, CR}
  /\ inputBuffer' = Append(inputBuffer, Head(rx))
  /\ lineBusy' = (lineBusy \/ Head(rxBusy))
  /\ rx' = Tail(rx)
  /\ rxBusy' = Tail(rxBusy)
  /\ ev' = Event("read", <<>>)
  /\ out' = <<>>
  /\ UNCHANGED <<motion, config, place, ledState, trip>>

\* One pass of the while body on a terminator with nothing buffered
LoopSkipTerminator ==
  /\ pc = "loop"
  /\ rx # <<>>
  /\ Head(rx) \in {LF, CR}
  /\ inputBuffer = <<>>
  /\ rx' = Tail(rx)
  /\ rxBusy' = Tail(rxBusy)
  /\ ev' = Event("read", <<>>)
  /\ out' = <<>>
  /\ UNCHANGED <<motion, config, place, ledState, inputBuffer, lineBusy, trip>>

\* Handle jog mode: one step per pass of loop() once the serial input is drained
LoopJog ==
  /\ pc = "loop"
  /\ rx = <<>>
  /\ jogMode /\ ~stopRequested
  /\ StepAllowed(jogDirection)
  /\ doStep(jogDirection)
  /\ ev' = Event("jog", <<>>)
  /\ out' = <<>>
  /\ UNCHANGED <<motion, config, ledState, inputBuffer, rx, rxBusy, lineBusy, trip>>

\* ---------------------------------------------------------- feedDistance()
\* Stream::readStringUntil('\n') on the receive buffer
RECURSIVE readStringUntil(_)
readStringUntil(buf) ==
  IF buf = <<>> THEN [str |-> <<>>, rest |-> <<>>]
  ELSE IF Head(buf) = LF THEN [str |-> <<>>, rest |-> Tail(buf)]
  ELSE LET r == readStringUntil(Tail(buf))
       IN [str |-> <<Head(buf)>> \o r.str, rest |-> r.rest]

\* Check for stop command: the scan at the end of each pass of the feed loop
stopScan ==
  IF rx # <<>> /\ Head(rx) \in {"S", "s"}
  THEN LET r == readStringUntil(rx)
       IN /\ rx' = r.rest
          /\ rxBusy' = SubSeq(rxBusy, Len(rx) - Len(r.rest) + 1, Len(rx))
          /\ stopRequested' = IF toUpperCase(trim(r.str)) = STOP THEN TRUE ELSE stopRequested
  ELSE UNCHANGED <<rx, rxBusy, stopRequested>>

\* while (stepsCompleted < totalSteps && !stopRequested)
FeedContinues_IgnoresCount == ~stopRequested
FeedContinues == feed.stepsCompleted < feed.totalSteps /\ ~stopRequested

\* One pass of the feed loop
FeedStep ==
  /\ pc = "feed"
  /\ FeedContinues
  /\ StepAllowed(feed.direction)
  /\ doStep(feed.direction)
  /\ feed' = [feed EXCEPT !.stepsCompleted = @ + 1]
  /\ stopScan
  /\ ev' = Event("feedstep", <<>>)
  /\ out' = <<>>
  /\ UNCHANGED <<isRunning, jogMode, jogDirection, pinDir, pc, config, ledState,
                 inputBuffer, lineBusy, trip>>

\* Update position: currentPositionMm += / -= stepsCompleted / stepsPerMm
feedUpdatePosition_AlwaysAdds ==
  currentPositionMm' = currentPositionMm + feed.stepsCompleted
feedUpdatePosition ==
  currentPositionMm' =
    IF feed.direction = DIR_FORWARD
    THEN currentPositionMm + feed.stepsCompleted
    ELSE currentPositionMm - feed.stepsCompleted

\* The feed loop has ended: feedDistance's epilogue, and the return into loop()
FeedEnd ==
  /\ pc = "feed"
  /\ ~FeedContinues
  /\ feedUpdatePosition
  /\ isRunning' = FALSE
  /\ out' = <<Line(IF stopRequested THEN "OK STOPPED_EARLY" ELSE "OK DONE", <<>>)>>
  /\ pc' = "loop"
  /\ feed' = NoFeed
  /\ inputBuffer' = <<>>
  /\ lineBusy' = FALSE
  /\ ev' = Event("feedend", <<feed.stepsCompleted, feed.totalSteps>>)
  /\ UNCHANGED <<stopRequested, jogMode, jogDirection, pinDir, config, ledState, rx,
                 rxBusy, netPulses, trip>>

\* ------------------------------------------------------------ specification
Terminators(line) == IF line \in CrLfLines THEN {<<LF>>, <<CR, LF>>} ELSE {<<LF>>}

Next ==
  \/ \E line \in HostLines : \E term \in Terminators(line) : HostSend(line, term)
  \/ LoopReadChar
  \/ LoopSkipTerminator
  \/ processCommand
  \/ LoopJog
  \/ FeedStep
  \/ FeedEnd

Spec == Init /\ [][Next]_vars

\* A host that only feeds, retracts, stops and queries, and that asks for a move
\* only when every step of it stays within the model's range, so that no feed
\* is cut short by the range.  Under this host the other cases of
\* processCommand and the jog step are never enabled.
LiveLines == { FEED_A, <<"R", ".", "1">>, <<"F", ".", "0", "5">>, STOP, QUERY }

MoveFits(line) ==
  LET c == toUpperCase(trim(line))
  IN IF c # <<>> /\ Head(c) \in {"F", "R"}
     THEN LET d == IF Head(c) = "F" THEN 1 ELSE 0 - 1
              n == stepsFor(toFloat(Tail(c)))
          IN \A k \in 0..(n - 1) :
               /\ InRange(currentPositionMm + k * d, d)
               /\ InRange(netPulses + k * d, d)
     ELSE TRUE

HostSendLive(line, term) ==
  /\ pc = "feed" => line \in {STOP, QUERY}
  /\ MoveFits(line)
  /\ HostSend(line, term)

LiveNext ==
  \/ \E line \in LiveLines : \E term \in Terminators(line) : HostSendLive(line, term)
  \/ LoopReadChar
  \/ LoopSkipTerminator
  \/ CmdStop
  \/ CaseF
  \/ CaseR
  \/ CaseQuery
  \/ FeedStep
  \/ FeedEnd

\* The processor keeps executing feedDistance once it has entered it: a pass of
\* the feed loop and the feed's epilogue each happen when they can.
LiveSpec ==
  /\ Init
  /\ [][LiveNext]_vars
  /\ WF_vars(FeedStep)
  /\ WF_vars(FeedEnd)

\* A host that runs round trips: from rest it sends F<dist>, waits until the
\* firmware is at rest again with nothing left to read, sends R<dist> with the
\* same text, and sends nothing else in between.  Outside a round trip it jogs,
\* stops and homes, so that round trips start from several positions.
TripDistances == { <<".", "1", "5">>, <<".", "1">>, <<".", "0", "5">> }
TripOtherLines == { JOG_A, <<"J", "-">>, STOP, HOME }

AtRest == pc = "loop" /\ rx = <<>> /\ inputBuffer = <<>> /\ ~isRunning

TripSendF(dist) ==
  /\ trip.phase \in {0, 2}
  /\ AtRest
  /\ Transmit(<<"F">> \o dist, <<LF>>)
  /\ trip' = [phase |-> 1, start |-> currentPositionMm, dist |-> dist]

TripSendR ==
  /\ trip.phase = 1
  /\ AtRest
  /\ Transmit(<<"R">> \o trip.dist, <<LF>>)
  /\ trip' = [trip EXCEPT !.phase = 2]

TripSendOther(line) ==
  /\ trip.phase \in {0, 2}
  /\ pc = "loop" /\ rx = <<>>
  /\ Transmit(line, <<LF>>)
  /\ trip' = NoTrip

TripNext ==
  \/ \E dist \in TripDistances : TripSendF(dist)
  \/ TripSendR
  \/ \E line \in TripOtherLines : TripSendOther(line)
  \/ LoopReadChar
  \/ CmdStop
  \/ CmdBusy
  \/ CaseF
  \/ CaseR
  \/ CaseJ
  \/ CaseH
  \/ LoopJog
  \/ FeedStep
  \/ FeedEnd

TripSpec == Init /\ [][TripNext]_vars

TypeOK ==
  /\ isRunning \in BOOLEAN /\ stopRequested \in BOOLEAN /\ jogMode \in BOOLEAN
  /\ jogDirection \in {DIR_FORWARD, DIR_REVERSE}
  /\ pinDir \in {DIR_FORWARD, DIR_REVERSE}
  /\ ledState \in 0..3
  /\ pc \in {"loop", "feed"}
  /\ Len(rx) <= MaxRx
  /\ Len(rxBusy) = Len(rx)

\* ------------------------------------------------------------------ claims
\* The step processes the command line c
Processed(c) == CmdReady /\ ev'.kind = "cmd" /\ cmdText = c
\* The step processes some non-empty command line
ProcessedAny == CmdReady /\ ev'.kind = "cmd" /\ cmdText # <<>>
\* The step prints exactly the line t
Says(t) == out' = <<Line(t, <<>>)>>
\* The step issues a step pulse
Pulse == ev'.kind \in {"jog", "feedstep"}
\* The step starts a feed or a jog
MoveStarts == (pc = "loop" /\ pc' = "feed") \/ (~jogMode /\ jogMode')
Sign(direction) == IF direction = DIR_FORWARD THEN 1 ELSE 0 - 1
\* round(mm * stepsPerMm), mm in thousandths
roundSteps(mm) == (mm * stepsPerMmX100 + 50000) \div 100000
\* buf holds a complete line that reads STOP
RECURSIVE HasStopLine(_)
HasStopLine(buf) ==
  /\ buf # <<>>
  /\ LET r == readStringUntil(buf)
     IN toUpperCase(trim(r.str)) = STOP \/ HasStopLine(r.rest)
\* c is F<mm> or R<mm> with mm > 0, J+ or J-
IsMotionCmd(c) ==
  \/ c \in {<<"J", "+">>, <<"J", "-">>}
  \/ c # <<>> /\ Head(c) \in {"F", "R"} /\ toFloat(Tail(c)) > 0

\* C1: between commands the tracked position equals the forward step pulses
\* minus the reverse step pulses issued since the last HOME or boot, in step
\* increments: every pulse is accounted for exactly once.
C1_PositionCountsPulses == pc = "loop" => currentPositionMm = netPulses

\* C2: a feed or retract that runs uninterrupted to OK DONE moves the position
\* by exactly +round(mm*stepsPerMm) step increments for F and by
\* -round(mm*stepsPerMm) for R.
C2_FeedMovesByRoundedDistance ==
  [][(pc = "feed" /\ pc' = "loop" /\ Says("OK DONE"))
       => currentPositionMm' - feed.startPos = Sign(feed.direction) * roundSteps(feed.mm)]_vars

\* C3: when a complete STOP line is waiting in the receive buffer while the
\* feed loop still has steps to run, whatever lies ahead of it, the next pass
\* of the loop is the last: it sets the stop request, and the feed then ends
\* with OK STOPPED_EARLY.
C3_StopLineEndsFeed ==
  [][/\ (pc = "feed" /\ FeedContinues /\ HasStopLine(rx) /\ ev'.kind = "feedstep")
          => stopRequested'
     /\ (pc = "feed" /\ HasStopLine(rx) /\ pc' = "loop" /\ feed.stepsCompleted < feed.totalSteps)
          => Says("OK STOPPED_EARLY")]_vars

\* C4: a motion command sent while a move was active is answered ERR BUSY when
\* it is processed and changes nothing: no move starts and no pulse follows from it.
C4_BusyMotionRejected ==
  [][(ProcessedAny /\ lineBusy /\ IsMotionCmd(cmdText))
       => (Says("ERR BUSY") /\ UNCHANGED <<motion, place>>)]_vars

\* C5: a STOP processed by the command interpreter is answered OK STOPPED,
\* leaves isRunning and jogMode false and the position unchanged; and a step
\* pulse is issued only while a jog or a feed is active, which only an accepted
\* F, R or J command brings about.
C5_StopAlwaysStops ==
  [][/\ Processed(STOP)
          => (Says("OK STOPPED") /\ ~isRunning' /\ ~jogMode' /\ pc' = "loop"
              /\ UNCHANGED place)
     /\ Pulse => (jogMode \/ pc = "feed")
     /\ MoveStarts
          => (ProcessedAny /\ Head(cmdText) \in {"F", "R", "J"} /\ ~Says("ERR BUSY"))]_vars

C5_Witness ==
  /\ ev.kind = "cmd" /\ ev.cmd = STOP
  /\ out = <<Line("OK STOPPED", <<>>)>>
  /\ ev.before # 0
  /\ ~isRunning /\ ~jogMode

\* C6: the motion state is exactly one of Idle, Feeding, Jogging: jogMode
\* implies isRunning, jogMode is false throughout a feed, isRunning holds only
\* in a feed or a jog, and a feed or jog starts only from a state where
\* isRunning and jogMode are both false.
C6_OneMotionState ==
  [][/\ jogMode' => isRunning'
     /\ pc' = "feed" => (isRunning' /\ ~jogMode')
     /\ isRunning' => (pc' = "feed" \/ jogMode')
     /\ (MoveStarts \/ (ProcessedAny /\ out' # <<>> /\ out'[1].txt \in {"FEEDING", "JOGGING FORWARD", "JOGGING REVERSE"}))
          => (~isRunning /\ ~jogMode)]_vars

C6_Witness ==
  /\ ev.kind = "cmd" /\ ev.cmd = JOG_A
  /\ out = <<Line("ERR BUSY", <<>>)>>
  /\ jogMode /\ isRunning /\ jogDirection = DIR_REVERSE

C8_SpeedSetOrRejected ==
  [][/\ (ProcessedAny /\ Head(cmdText) = "S" /\ cmdText # STOP /\ ~isRunning)
          => LET v == toFloat(Tail(cmdText))
             IN IF 0 < v /\ v <= maxSpeedMmSec
                THEN /\ targetSpeedMmSec' = v
                     /\ stepDelayUs' = stepIntervalFor(v)
                     /\ out' = <<Line("OK SPEED=", <<print2(v)>>)>>
                ELSE /\ out' = <<Line("ERR SPEED_RANGE 0-", <<5000>>)>>
                     /\ UNCHANGED config
     /\ (Processed(SPEED_A) /\ ~isRunning)
          => (targetSpeedMmSec' = 20000 /\ stepDelayUs' = 2837)
     /\ Processed(QUERY) => out'[1].val[2] = print2(targetSpeedMmSec)
     /\ 0 < targetSpeedMmSec' /\ targetSpeedMmSec' <= maxSpeedMmSec]_vars

C8_Witness ==
  /\ ev.kind = "cmd" /\ ev.cmd = SPEED_A
  /\ out = <<Line("OK SPEED=", <<2000>>)>>
  /\ targetSpeedMmSec = 20000
  /\ stepDelayUs = 2837

\* C9: a command other than STOP and ? that was sent while a move was active is
\* answered ERR BUSY and changes neither speed, position nor indicator level;
\* a ? sent while a move was active is answered with the running flag set.
C9_BusyRejectsOthers ==
  [][(ProcessedAny /\ lineBusy /\ cmdText # STOP)
       => IF Head(cmdText) = "?"
          THEN out'[1].txt = "STATUS" /\ out'[1].val[4] = 1
          ELSE Says("ERR BUSY") /\ UNCHANGED <<config, place, ledState>>]_vars

\* c is one of the recognised command forms (an F, R, S or L command counts as
\* recognised whatever its argument)
Recognised(c) ==
  \/ c \in {STOP, HOME, POS, QUERY, <<"J", "+">>, <<"J", "-">>}
  \/ Head(c) \in {"F", "R", "S", "L"}

\* C10: a non-empty line processed in Idle that is not a recognised form is
\* answered with exactly one error line: ERR USE J+ OR J- for a J command,
\* ERR UNKNOWN_CMD otherwise.
C10_UnrecognisedGetsError ==
  [][(ProcessedAny /\ ~isRunning /\ ~Recognised(cmdText))
       => IF Head(cmdText) = "J" THEN Says("ERR USE J+ OR J-") ELSE Says("ERR UNKNOWN_CMD")]_vars

\* C11: every accepted feed or retract terminates: once FEEDING is printed the
\* feed loop ends, and it ends only with the step count at the target or a
\* stop requested; the controller is then Idle in loop() again, having printed
\* exactly one of OK DONE and OK STOPPED_EARLY.
C11_FeedTerminates ==
  /\ (pc = "feed") ~> (pc = "loop" /\ ~isRunning /\ ev.kind = "feedend")
  /\ [][(pc = "feed" /\ pc' = "loop")
          => /\ feed.stepsCompleted = feed.totalSteps \/ stopRequested
             /\ ~isRunning'
             /\ out' \in {<<Line("OK DONE", <<>>)>>, <<Line("OK STOPPED_EARLY", <<>>)>>}]_vars
  /\ [][(pc = "feed" /\ pc' = "feed") => (out' = <<>> /\ isRunning')]_vars

C11_Witness ==
  /\ ev.kind = "feedend"
  /\ ev.cmd[1] < ev.cmd[2]
  /\ out = <<Line("OK STOPPED_EARLY", <<>>)>>
  /\ pc = "loop" /\ ~isRunning

\* C12: a feed of F<mm> followed by a retract R<mm> of the same distance, both
\* run uninterrupted, ends with OK DONE twice and with the position back at the
\* value it had before the feed: the retract undoes exactly what the feed did.
C12_RoundTripReturns ==
  [][/\ (trip.phase \in {1, 2} /\ pc = "feed" /\ pc' = "loop") => Says("OK DONE")
     /\ (trip.phase = 2 /\ pc = "feed" /\ pc' = "loop")
          => /\ currentPositionMm' = trip.start
             /\ feed.stepsCompleted = stepsFor(toFloat(trip.dist))]_vars
C12_Witness ==
  /\ trip.phase = 2
  /\ ev.kind = "feedend"
  /\ ev.cmd[1] > 0
  /\ trip.start # 0
  /\ currentPositionMm = trip.start
  /\ out = <<Line("OK DONE", <<>>)>>
\* n for a command text L<n> whose argument is a decimal number, else -1
LedLevel(c) ==
  IF Len(c) >= 2 /\ Head(c) = "L" /\ (\A i \in 2..Len(c) : IsDigit(c[i]))
  THEN DigitsValue(Tail(c), 0)
  ELSE 0 - 1

\* C13: the indicator is independent of motion.  L<n> with n in 0..3 sets the
\* level to n in every motion state, prints nothing and changes no motion
\* variable; L<n> with n above 3 prints ERR LED_RANGE 0-3 and leaves the level
\* as it was; and nothing but an L command changes the level.
C13_LedIndependentOfMotion ==
  [][/\ (ProcessedAny /\ LedLevel(cmdText) \in 0..3)
          => /\ ledState' = LedLevel(cmdText)
             /\ out' = <<>>
             /\ UNCHANGED <<isRunning, jogMode, stopRequested, currentPositionMm, config>>
     /\ (ProcessedAny /\ LedLevel(cmdText) > 3)
          => Says("ERR LED_RANGE 0-3") /\ UNCHANGED ledState
     /\ (ledState' # ledState) => (ProcessedAny /\ Head(cmdText) = "L")]_vars
\* The pass of the feed loop being taken recognises a STOP line inline
InlineStop ==
  /\ pc = "feed" /\ ev'.kind = "feedstep"
  /\ rx # <<>> /\ Head(rx) \in {"S", "s"}
  /\ toUpperCase(trim(readStringUntil(rx).str)) = STOP

\* C14: the stop request becomes true only when a STOP command is processed or
\* a STOP line is recognised inline during a feed; every start of a move leaves
\* it false; it is false when the first step of a feed is issued and in every
\* state where jogMode is true.
C14_StopRequestConsumed ==
  [][/\ (stopRequested' /\ ~stopRequested) => (Processed(STOP) \/ InlineStop)
     /\ MoveStarts => ~stopRequested'
     /\ (ev'.kind = "feedstep" /\ feed.stepsCompleted = 0) => ~stopRequested
     /\ jogMode' => ~stopRequested']_vars
\* A feed accepted after a reverse jog (which only a STOP can have ended) is
\* about to issue its first step with the stop request cleared
C14_Witness ==
  /\ pc = "feed" /\ feed.totalSteps > 0 /\ feed.stepsCompleted = 0
  /\ jogDirection = DIR_REVERSE
  /\ ev.kind = "cmd"
  /\ ~stopRequested
\* C15: a jog step is issued only once the serial input is drained and the
\* firmware is still jogging; it is exactly one pulse in the jog direction and
\* moves the position by exactly one step increment in that direction.  While
\* jogging nothing else moves the position, and in Idle only HOME changes it,
\* so after J+ or J-, k passes and a STOP the position is k increments away
\* from where the jog began and stays there.
C15_JogStepsOnePerPass ==
  [][/\ (ev'.kind = "jog")
          => /\ rx = <<>> /\ jogMode /\ jogMode'
             /\ currentPositionMm' = currentPositionMm + Sign(jogDirection)
             /\ netPulses' = netPulses + Sign(jogDirection)
     /\ (jogMode /\ currentPositionMm' # currentPositionMm) => ev'.kind = "jog"
     /\ (pc = "loop" /\ ~isRunning /\ currentPositionMm' # currentPositionMm)
          => Processed(HOME)]_vars
\* Two reverse jog steps from the boot position, then STOP
C15_Witness ==
  /\ ev.kind = "cmd" /\ ev.cmd = STOP
  /\ out = <<Line("OK STOPPED", <<>>)>>
  /\ ~jogMode /\ ~isRunning
  /\ jogDirection = DIR_REVERSE
  /\ netPulses = 0 - 2
  /\ currentPositionMm = 0 - 2
\* C16: an F or R command processed in Idle whose distance is zero, negative
\* or not a number is answered ERR INVALID_DISTANCE, starts nothing, issues no
\* pulse and leaves isRunning, stopRequested, the position and the direction
\* output as they were; and every accepted feed or retract that runs
\* uninterrupted to OK DONE has issued at least one step.
C16_NoZeroLengthMove ==
  [][/\ (ProcessedAny /\ ~isRunning /\ Head(cmdText) \in {"F", "R"}
           /\ toFloat(Tail(cmdText)) <= 0)
          => /\ Says("ERR INVALID_DISTANCE")
             /\ ~Pulse /\ pc' = "loop"
             /\ UNCHANGED <<isRunning, stopRequested, currentPositionMm, pinDir>>
     /\ (pc = "feed" /\ pc' = "loop" /\ Says("OK DONE")) => feed.stepsCompleted >= 1]_vars
\* C17: a feed ends with OK DONE exactly when it issued all of its target
\* steps and with OK STOPPED_EARLY exactly when it issued fewer, also when a
\* STOP line was recognised right after the final target step.
C17_ReportMatchesStepCount ==
  [][(pc = "feed" /\ pc' = "loop")
       => /\ Says("OK DONE") <=> feed.stepsCompleted = feed.totalSteps
          /\ Says("OK STOPPED_EARLY") <=> feed.stepsCompleted < feed.totalSteps]_vars
\* mm * stepsPerMm truncated toward zero, for mm >= 0 in thousandths: the
\* largest n with n <= mm * stepsPerMm
truncSteps(mm) ==
  CHOOSE n \in 0..mm :
    /\ n * 100000 <= mm * stepsPerMmX100
    /\ (n + 1) * 100000 > mm * stepsPerMmX100

\* C18: every pass of the feed loop is one pulse in the feed's direction; a
\* feed or retract that ends uninterrupted has issued exactly mm*stepsPerMm
\* truncated toward zero pulses, and one that ends on a stop request has issued
\* k pulses with 0 < k <= that target.
C18_PulseCountOfFeed ==
  [][/\ (ev'.kind = "feedstep")
          => /\ netPulses' = netPulses + Sign(feed.direction)
             /\ feed'.stepsCompleted = feed.stepsCompleted + 1
     /\ (pc = "feed" /\ pc' = "loop")
          => /\ feed.totalSteps = truncSteps(feed.mm)
             /\ IF stopRequested
                THEN 0 < feed.stepsCompleted /\ feed.stepsCompleted <= truncSteps(feed.mm)
                ELSE feed.stepsCompleted = truncSteps(feed.mm)]_vars
\* A feed of two target steps stopped after its first step
C18_Witness ==
  /\ ev.kind = "feedend" /\ ev.cmd = <<1, 2>>
  /\ stopRequested
  /\ pc = "loop"
\* n * d <= 10^11, for 0 <= n < 2^14 and 0 <= d < 2^27, within 32 bits
LeqE11(n, d) ==
  LET hi == n * (d \div 1000) + (n * (d % 1000)) \div 1000
      lo == (n * (d % 1000)) % 1000
  IN hi < 100000000 \/ (hi = 100000000 /\ lo = 0)

\* n = max(100, floor(1000000 / (speed * stepsPerMm))), speed in thousandths
IsDelayFor(n, speed) ==
  LET d == speed * stepsPerMmX100
  IN IF LeqE11(100, d)
     THEN LeqE11(n, d) /\ ~LeqE11(n + 1, d)
     ELSE n = 100

\* C19: in every state the step delay is max(100, floor(1000000 / (speed *
\* stepsPerMm))) microseconds for the current speed, hence never below 100; it
\* is recomputed by every accepted S command, and it does not change while a
\* feed or a jog is in progress.
C19_StepDelayFollowsSpeed ==
  /\ [](IsDelayFor(stepDelayUs, targetSpeedMmSec) /\ stepDelayUs >= 100)
  /\ [][/\ (ProcessedAny /\ out' # <<>> /\ out'[1].txt = "OK SPEED=")
             => IsDelayFor(stepDelayUs', toFloat(Tail(cmdText)))
        /\ isRunning => UNCHANGED stepDelayUs]_vars
\* A jog step at the speed set by S20
C19_Witness ==
  /\ ev.kind = "jog" /\ isRunning
  /\ targetSpeedMmSec = 20000
  /\ stepDelayUs = 2837
\* C20: at every step pulse the direction output equals the direction of the
\* move being run and the position moves one increment that way; the output is
\* written when a feed or a jog starts, to that move's direction, and at no
\* other time; and jogDirection does not change while the jog lasts.
C20_DirectionLineMatchesSteps ==
  [][/\ Pulse
          => /\ pinDir = (IF pc = "feed" THEN feed.direction ELSE jogDirection)
             /\ currentPositionMm' = currentPositionMm + Sign(pinDir)
             /\ netPulses' = netPulses + Sign(pinDir)
     /\ (pinDir' # pinDir) => MoveStarts
     /\ MoveStarts
          => pinDir' = (IF pc' = "feed" THEN feed'.direction ELSE jogDirection')
     /\ (jogMode /\ jogMode') => UNCHANGED jogDirection]_vars
\* A step of a retract that began forward of the reference: the direction
\* output was rewritten for this move
C20_Witness ==
  /\ ev.kind = "feedstep"
  /\ pinDir = DIR_REVERSE /\ feed.direction = DIR_REVERSE
  /\ ev.before > 0
  /\ currentPositionMm = ev.before - 1
====
